---- MODULE Spec2Model ----
(***************************************************************************)
(* Model of the confidential-ballot voting repository.                     *)
(*                                                                         *)
(* The repository holds three implementations of the same protocol:        *)
(*   - contracts/DAOPrivacyVotingFHE.sol  (contract DAOPrivacyVotingFHE),  *)
(*     checked under SpecDAO;                                              *)
(*   - unnamed/part_001 (contract FHE_Governance_Voting), checked under    *)
(*     SpecGov;                                                            *)
(*   - frontend/web/src/App.tsx (the web client over the key-value store   *)
(*     of FHE_Governance_Voting), checked under SpecWeb.                   *)
(* Every external call is one atomic transaction: a revert leaves the      *)
(* contract storage as it was, and only the variable "last" (the call and  *)
(* its outcome, as the caller observes it) records that it took place.     *)
(***************************************************************************)
EXTENDS Integers, Sequences, FiniteSets, TLC

----------------------------------------------------------------------------
(* Bounds of the model *)

MaxTime == 4

\* proposals created where the whole input space of the voting calls is explored
MaxProposals == 1

\* proposals created where calls on one proposal are set against another
MaxFrameProposals == 2

MaxFinalize == 2

\* longest key list a client extends
MaxKeys == 2

\* largest value of the unsigned word of the weight helpers (2^256 - 1 scaled down)
MaxWord == 63

\* largest value of a uint64 field (2^64 - 1 scaled down, above 3 days)
MaxUint64 == 300000

----------------------------------------------------------------------------
(* Program constants *)

ThreeDays == 259200

MaxOptions == 16

----------------------------------------------------------------------------
(* Input domains *)

Owner == "owner"

Voters == {"alice", "bob"}

Addrs == {Owner} \cup Voters

NoAddr == "0x0"

PIDs == 1..MaxFrameProposals

CorePIDs == 1..MaxProposals

\* bytes32 nullifiers supplied by callers; 0 is the zero word of empty storage
NullifierInputs == {1, 2}

\* opaque ballot ciphertexts: the encrypted choice vector, <<>> is empty bytes
CipherInputs == {<<>>, <<1, 0>>, <<0, 1>>}

\* encrypted vectors handed to the accumulator (TFHE stub: encrypt64(v) wraps v)
VectorInputs == {<<1, 0>>, <<0, 1>>, <<1, 0, 0>>}

StartInputs == {1}

EndInputs == {1, 2}

\* 259201 is one second more than 3 days
BufferInputs == {0, 1, 259201}

OptionCountInputs == {1, 2, 3}

Disclosures == {"Minimal", "AggregateOnly"}

\* bytes32 allowlist roots handed to setAllowlistRoot
RootInputs == {0, 7}

\* committee accounts handed to allowAggregateView
ViewerInputs == {"bob"}

MetaInputs ==
    [ startTs : StartInputs, endTs : EndInputs, bufferTs : BufferInputs,
      voteType : {"SingleChoice"}, disclosure : Disclosures,
      optionCount : OptionCountInputs, snapshotBlock : {0},
      eligibilityMerkle : {0}, enableOverwrite : BOOLEAN,
      enableDelegation : {TRUE}, exists : {FALSE} ]

----------------------------------------------------------------------------
VARIABLES
    now,            \* block.timestamp / Date.now()
    last,           \* the last call and its outcome
    \* contract DAOPrivacyVotingFHE
    proposalNonce, proposals, tallies, ballots, usedNullifier, emitted, allowed,
    delegations,
    \* contract FHE_Governance_Voting
    _proposals, _proposalExists, _proposalIds, _ballots, _hasVoted,
    _results, _hasResult, owner, registeredShares, weight,
    \* the key-value store of FHE_Governance_Voting and the web clients over it
    _kv, pc, local, cache

daoVars ==
    <<proposalNonce, proposals, tallies, ballots, usedNullifier, emitted, allowed,
      delegations>>

weightVars == <<registeredShares, weight>>

govVars ==
    <<_proposals, _proposalExists, _proposalIds, _ballots, _hasVoted,
      _results, _hasResult, owner, weightVars>>

webVars == <<_kv, pc, local, cache>>

vars == <<now, last, daoVars, govVars, webVars>>

Call(op, pid, who, nul, err) ==
    [op |-> op, pid |-> pid, who |-> who, nul |-> nul, err |-> err]

NoCall == Call("none", 0, NoAddr, 0, "ok")

----------------------------------------------------------------------------
(* contract DAOPrivacyVotingFHE *)

ZeroMeta ==
    [ startTs |-> 0, endTs |-> 0, bufferTs |-> 0, voteType |-> "SingleChoice",
      disclosure |-> "Minimal", optionCount |-> 0, snapshotBlock |-> 0,
      eligibilityMerkle |-> 0, enableOverwrite |-> FALSE,
      enableDelegation |-> FALSE, exists |-> FALSE ]

ZeroTally == [counts |-> <<>>, initialized |-> FALSE]

ZeroDelegation == [to |-> NoAddr, ts |-> 0]

ZeroBallot ==
    [ voter |-> NoAddr, eligibilityNullifier |-> 0, cipher |-> <<>>,
      timestamp |-> 0, valid |-> FALSE ]

\* TFHE.encrypt64 of the stub library: the ciphertext wraps the plaintext
encrypt64(v) == v

\* TFHE.add64 of the stub library: the sum of the wrapped values
add64(a, b) == a + b

\* modifier proposalActive without the require on the end of the window
proposalActive_noEnd(pid) ==
    IF ~proposals[pid].exists THEN "proposal/invalid"
    ELSE IF ~(now >= proposals[pid].startTs) THEN "proposal/not-started"
    ELSE "ok"

\* modifier proposalActive: "ok" or the message of the failing require
proposalActive(pid) ==
    IF ~proposals[pid].exists THEN "proposal/invalid"
    ELSE IF ~(now >= proposals[pid].startTs) THEN "proposal/not-started"
    ELSE IF ~(now <= proposals[pid].endTs) THEN "proposal/ended"
    ELSE "ok"

\* modifier proposalEnded
proposalEnded(pid) ==
    IF ~proposals[pid].exists THEN "proposal/invalid"
    ELSE IF ~(now > proposals[pid].endTs) THEN "proposal/not-ended"
    ELSE "ok"

\* createProposal without the require on the times
createProposalErr_noTime(sender, meta) ==
    IF sender # Owner THEN "not owner"
    ELSE IF ~(meta.optionCount > 1 /\ meta.optionCount <= MaxOptions)
        THEN "options/out-of-range"
    ELSE IF ~(meta.bufferTs <= ThreeDays) THEN "buffer/too-long"
    ELSE "ok"

createProposalErr(sender, meta) ==
    IF sender # Owner THEN "not owner"
    ELSE IF ~(meta.optionCount > 1 /\ meta.optionCount <= MaxOptions)
        THEN "options/out-of-range"
    ELSE IF ~(meta.endTs > meta.startTs) THEN "time/invalid"
    ELSE IF ~(meta.bufferTs <= ThreeDays) THEN "buffer/too-long"
    ELSE "ok"

\* createProposal that takes the current nonce as the id once one proposal exists
createProposal_reusesId(sender, meta) ==
    LET err == createProposalErr(sender, meta)
        pid == IF proposalNonce = 0 THEN 1 ELSE proposalNonce
    IN  /\ proposalNonce < MaxFrameProposals
        /\ last' = Call("createProposal", pid, sender, 0, err)
        /\ IF err = "ok"
           THEN /\ proposalNonce' = pid
                /\ proposals' = [proposals EXCEPT ![pid] = [meta EXCEPT !.exists = TRUE]]
                /\ tallies' = [tallies EXCEPT ![pid] =
                        [ counts |-> [i \in 1..meta.optionCount |-> encrypt64(0)],
                          initialized |-> TRUE ]]
           ELSE UNCHANGED <<proposalNonce, proposals, tallies>>
        /\ UNCHANGED <<now, ballots, usedNullifier, emitted, allowed, delegations, govVars, webVars>>

createProposal(sender, meta) ==
    LET err == createProposalErr(sender, meta)
        pid == proposalNonce + 1
    IN  /\ proposalNonce < MaxFrameProposals
        /\ last' = Call("createProposal", pid, sender, 0, err)
        /\ IF err = "ok"
           THEN /\ proposalNonce' = pid
                /\ proposals' = [proposals EXCEPT ![pid] = [meta EXCEPT !.exists = TRUE]]
                /\ tallies' = [tallies EXCEPT ![pid] =
                        [ counts |-> [i \in 1..meta.optionCount |-> encrypt64(0)],
                          initialized |-> TRUE ]]
           ELSE UNCHANGED <<proposalNonce, proposals, tallies>>
        /\ UNCHANGED <<now, ballots, usedNullifier, emitted, allowed, delegations, govVars, webVars>>

\* submitBallot without the require on enableOverwrite
submitBallotErr_noOverwriteRequire(pid, eligibilityNullifier) ==
    IF proposalActive(pid) # "ok" THEN proposalActive(pid) ELSE "ok"

submitBallotErr(pid, eligibilityNullifier) ==
    IF proposalActive(pid) # "ok" THEN proposalActive(pid)
    ELSE IF usedNullifier[pid][eligibilityNullifier] /\ ~proposals[pid].enableOverwrite
        THEN "overwrite/disabled"
    ELSE "ok"

submitBallot(sender, pid, eligibilityNullifier, cipher) ==
    LET err == submitBallotErr(pid, eligibilityNullifier)
    IN  /\ last' = Call("submitBallot", pid, sender, eligibilityNullifier, err)
        /\ IF err = "ok"
           THEN /\ usedNullifier' = [usedNullifier EXCEPT ![pid][eligibilityNullifier] = TRUE]
                /\ ballots' = [ballots EXCEPT ![pid][sender] =
                        [ voter |-> sender,
                          eligibilityNullifier |-> eligibilityNullifier,
                          cipher |-> cipher, timestamp |-> now, valid |-> TRUE ]]
           ELSE UNCHANGED <<usedNullifier, ballots>>
        /\ UNCHANGED <<now, proposalNonce, proposals, tallies, emitted, allowed, delegations, govVars, webVars>>

\* accumulateEncryptedVector without the require on the vector length
accumulateEncryptedVectorErr_noSize(pid, encVector) ==
    IF proposalActive(pid) # "ok" THEN proposalActive(pid) ELSE "ok"

accumulateEncryptedVectorErr(pid, encVector) ==
    IF proposalActive(pid) # "ok" THEN proposalActive(pid)
    ELSE IF ~(tallies[pid].initialized /\ Len(encVector) = Len(tallies[pid].counts))
        THEN "vector/size"
    ELSE "ok"

\* accumulateEncryptedVector whose loop runs before the require on the length
accumulateEncryptedVector_writesFirst(sender, pid, encVector) ==
    LET err == accumulateEncryptedVectorErr(pid, encVector)
    IN  /\ last' = Call("accumulateEncryptedVector", pid, sender, 0, err)
        /\ IF err \in {"ok", "vector/size"}
           THEN tallies' = [tallies EXCEPT ![pid].counts =
                    [i \in 1..Len(@) |-> IF i <= Len(encVector) THEN encVector[i] ELSE @[i]]]
           ELSE UNCHANGED tallies
        /\ UNCHANGED <<now, proposalNonce, proposals, ballots, usedNullifier, emitted, allowed, delegations,
                       govVars, webVars>>

accumulateEncryptedVector(sender, pid, encVector) ==
    LET err == accumulateEncryptedVectorErr(pid, encVector)
    IN  /\ last' = Call("accumulateEncryptedVector", pid, sender, 0, err)
        /\ IF err = "ok"
           THEN tallies' = [tallies EXCEPT ![pid].counts =
                    [i \in 1..Len(encVector) |-> encVector[i]]]
           ELSE UNCHANGED tallies
        /\ UNCHANGED <<now, proposalNonce, proposals, ballots, usedNullifier, emitted, allowed, delegations,
                       govVars, webVars>>

finalizeErr(pid) ==
    IF proposalEnded(pid) # "ok" THEN proposalEnded(pid)
    ELSE IF proposals[pid].endTs + proposals[pid].bufferTs > MaxUint64 THEN "panic"
    ELSE IF ~(now > proposals[pid].endTs + proposals[pid].bufferTs) THEN "buffer/pending"
    ELSE "ok"

finalize(sender, pid) ==
    LET err == finalizeErr(pid)
    IN  /\ emitted[pid] < MaxFinalize
        /\ last' = Call("finalize", pid, sender, 0, err)
        /\ IF err = "ok"
           THEN emitted' = [emitted EXCEPT ![pid] = @ + 1]
           ELSE UNCHANGED emitted
        /\ UNCHANGED <<now, proposalNonce, proposals, tallies, ballots, usedNullifier, allowed, delegations,
                       govVars, webVars>>

setDelegationErr(sender, pid, to) ==
    IF proposalActive(pid) # "ok" THEN proposalActive(pid)
    ELSE IF ~(to # sender) THEN "delegate/self"
    ELSE "ok"

\* setDelegation that also invalidates the stored ballot of the delegator
setDelegation_invalidatesBallot(sender, pid, to) ==
    LET err == setDelegationErr(sender, pid, to)
    IN  /\ last' = Call("setDelegation", pid, sender, 0, err)
        /\ IF err = "ok"
           THEN /\ delegations' = [delegations EXCEPT ![pid][sender] = [to |-> to, ts |-> now]]
                /\ ballots' = [ballots EXCEPT ![pid][sender].valid = FALSE]
           ELSE UNCHANGED <<delegations, ballots>>
        /\ UNCHANGED <<now, proposalNonce, proposals, tallies, usedNullifier, emitted,
                       allowed, govVars, webVars>>

\* setDelegation that records the delegation under every proposal
setDelegation_allProposals(sender, pid, to) ==
    LET err == setDelegationErr(sender, pid, to)
    IN  /\ last' = Call("setDelegation", pid, sender, 0, err)
        /\ IF err = "ok"
           THEN delegations' = [q \in PIDs |->
                    [delegations[q] EXCEPT ![sender] = [to |-> to, ts |-> now]]]
           ELSE UNCHANGED delegations
        /\ UNCHANGED <<now, proposalNonce, proposals, tallies, ballots, usedNullifier, emitted,
                       allowed, govVars, webVars>>

setDelegation(sender, pid, to) ==
    LET err == setDelegationErr(sender, pid, to)
    IN  /\ last' = Call("setDelegation", pid, sender, 0, err)
        /\ IF err = "ok"
           THEN delegations' = [delegations EXCEPT ![pid][sender] = [to |-> to, ts |-> now]]
           ELSE UNCHANGED delegations
        /\ UNCHANGED <<now, proposalNonce, proposals, tallies, ballots, usedNullifier, emitted,
                       allowed, govVars, webVars>>

setAllowlistRootErr(sender, pid) ==
    IF sender # Owner THEN "not owner"
    ELSE IF ~proposals[pid].exists THEN "proposal/invalid"
    ELSE "ok"

setAllowlistRoot(sender, pid, root) ==
    LET err == setAllowlistRootErr(sender, pid)
    IN  /\ last' = Call("setAllowlistRoot", pid, sender, 0, err)
        /\ IF err = "ok"
           THEN proposals' = [proposals EXCEPT ![pid].eligibilityMerkle = root]
           ELSE UNCHANGED proposals
        /\ UNCHANGED <<now, proposalNonce, tallies, ballots, usedNullifier, emitted, allowed, delegations,
                       govVars, webVars>>

allowAggregateViewErr(sender, pid) ==
    IF sender # Owner THEN "not owner"
    ELSE IF ~tallies[pid].initialized THEN "tally/invalid"
    ELSE "ok"

\* allowAggregateView whose loop runs over the stored ballots instead
allowAggregateView_overBallots(sender, pid, viewer) ==
    LET err == allowAggregateViewErr(sender, pid)
    IN  /\ last' = Call("allowAggregateView", pid, sender, 0, err)
        /\ IF err = "ok"
           THEN allowed' = allowed \cup
                    { [store |-> "ballots", pid |-> pid, viewer |-> viewer, cell |-> 1] }
           ELSE UNCHANGED allowed
        /\ UNCHANGED <<now, proposalNonce, proposals, tallies, ballots, usedNullifier, emitted,
                       delegations, govVars, webVars>>

\* the ciphertexts the loop of allowAggregateView visits for the viewer: the
\* place of TFHE.allow(T.counts[i], viewer)
allowAggregateView(sender, pid, viewer) ==
    LET err == allowAggregateViewErr(sender, pid)
    IN  /\ last' = Call("allowAggregateView", pid, sender, 0, err)
        /\ IF err = "ok"
           THEN allowed' = allowed \cup
                    { [store |-> "tallies", pid |-> pid, viewer |-> viewer, cell |-> i] :
                        i \in 1..Len(tallies[pid].counts) }
           ELSE UNCHANGED allowed
        /\ UNCHANGED <<now, proposalNonce, proposals, tallies, ballots, usedNullifier, emitted,
                       delegations, govVars, webVars>>

----------------------------------------------------------------------------
(* contract FHE_Governance_Voting *)

\* string proposal ids supplied by callers; "" is the empty id
GovIds == {"p1"}

GovIdInputs == GovIds \cup {""}

DeadlineInputs == {1, 2}

\* enableFor, enableAgainst, enableAbstain
OptionFlagInputs == {<<FALSE, FALSE, FALSE>>, <<TRUE, TRUE, FALSE>>}

GovCipherInputs == {<<>>, <<1, 0>>}

\* totalFor, totalAgainst, totalAbstain, totalWeight, proof
ResultInputs == {<<0, 0, 0, 0, "">>, <<1, 0, 0, 1, "zk">>}

\* the 40 lowercase hex digits of an address (abbreviated)
_toLowerAddr(a) ==
    CASE a = "owner" -> "0a"
      [] a = "alice" -> "a1"
      [] a = "bob"   -> "b0"
      [] OTHER       -> "00"

\* keccak256(abi.encodePacked(s, id)) as a collision-free digest of its input
keccak256(s, id) ==
    LET sCode == CASE s = "0a" -> 1 [] s = "a1" -> 2 [] s = "b0" -> 3 [] OTHER -> 0
        idCode == CASE id = "" -> 0 [] id = "p1" -> 1 [] OTHER -> 2
    IN  100 + 10 * sCode + idCode

ZeroProposal ==
    [ id |-> "", createdAt |-> 0, deadline |-> 0, createdBy |-> NoAddr,
      model |-> "OneShareOneVote", optFor |-> FALSE, optAgainst |-> FALSE,
      optAbstain |-> FALSE, status |-> "Active" ]

ZeroGovBallot == [ciphertext |-> <<>>, nullifier |-> 0, submittedAt |-> 0]

ZeroResult ==
    [ totalFor |-> 0, totalAgainst |-> 0, totalAbstain |-> 0, totalWeight |-> 0,
      proof |-> "", finalizedAt |-> 0 ]

Gov_createProposalErr(id_, deadline_, enableFor, enableAgainst, enableAbstain) ==
    IF id_ \in GovIds /\ _proposalExists[id_] THEN "id exists"
    ELSE IF id_ = "" THEN "empty id"
    ELSE IF ~(deadline_ > now) THEN "deadline in past"
    ELSE IF ~(enableFor \/ enableAgainst \/ enableAbstain) THEN "no options"
    ELSE "ok"

Gov_createProposal(sender, id_, deadline_, model_, enableFor, enableAgainst, enableAbstain) ==
    LET err == Gov_createProposalErr(id_, deadline_, enableFor, enableAgainst, enableAbstain)
    IN  /\ last' = Call("createProposal", id_, sender, 0, err)
        /\ IF err = "ok"
           THEN /\ _proposals' = [_proposals EXCEPT ![id_] =
                        [ id |-> id_, createdAt |-> now, deadline |-> deadline_,
                          createdBy |-> sender, model |-> model_,
                          optFor |-> enableFor, optAgainst |-> enableAgainst,
                          optAbstain |-> enableAbstain, status |-> "Active" ]]
                /\ _proposalExists' = [_proposalExists EXCEPT ![id_] = TRUE]
                /\ _proposalIds' = Append(_proposalIds, id_)
           ELSE UNCHANGED <<_proposals, _proposalExists, _proposalIds>>
        /\ UNCHANGED <<now, daoVars, webVars, _ballots, _hasVoted, _results, _hasResult, owner,
                       weightVars>>

\* cancelProposal without the require on the Active status
cancelProposalErr_noActiveRequire(sender, id_) ==
    IF ~(id_ \in GovIds /\ _proposalExists[id_]) THEN "not found"
    ELSE IF ~(sender = _proposals[id_].createdBy \/ sender = owner) THEN "no perm"
    ELSE "ok"

\* cancelProposal without the require on the caller
cancelProposalErr_noPermRequire(sender, id_) ==
    IF ~(id_ \in GovIds /\ _proposalExists[id_]) THEN "not found"
    ELSE IF ~(_proposals[id_].status = "Active") THEN "not active"
    ELSE "ok"

cancelProposalErr(sender, id_) ==
    IF ~(id_ \in GovIds /\ _proposalExists[id_]) THEN "not found"
    ELSE IF ~(sender = _proposals[id_].createdBy \/ sender = owner) THEN "no perm"
    ELSE IF ~(_proposals[id_].status = "Active") THEN "not active"
    ELSE "ok"

\* cancelProposal that also clears the has-voted entries of the proposal
cancelProposal_clearsVotes(sender, id_) ==
    LET err == cancelProposalErr(sender, id_)
    IN  /\ last' = Call("cancelProposal", id_, sender, 0, err)
        /\ IF err = "ok"
           THEN /\ _proposals' = [_proposals EXCEPT ![id_].status = "Cancelled"]
                /\ _hasVoted' = [_hasVoted EXCEPT ![id_] = [a \in Addrs |-> FALSE]]
           ELSE UNCHANGED <<_proposals, _hasVoted>>
        /\ UNCHANGED <<now, daoVars, webVars, _proposalExists, _proposalIds, _ballots,
                       _results, _hasResult, owner, weightVars>>

cancelProposal(sender, id_) ==
    LET err == cancelProposalErr(sender, id_)
    IN  /\ last' = Call("cancelProposal", id_, sender, 0, err)
        /\ IF err = "ok"
           THEN _proposals' = [_proposals EXCEPT ![id_].status = "Cancelled"]
           ELSE UNCHANGED _proposals
        /\ UNCHANGED <<now, daoVars, webVars, _proposalExists, _proposalIds, _ballots,
                       _hasVoted, _results, _hasResult, owner, weightVars>>

\* submitEncryptedBallot without the require on the Active status
submitEncryptedBallotErr_noStatus(sender, id_, ciphertext_, nullifier_) ==
    IF ~(id_ \in GovIds /\ _proposalExists[id_]) THEN "proposal not found"
    ELSE IF ~(now < _proposals[id_].deadline) THEN "voting closed"
    ELSE IF _hasVoted[id_][sender] THEN "already voted"
    ELSE IF ~(Len(ciphertext_) > 0) THEN "empty ciphertext"
    ELSE IF ~(nullifier_ = keccak256(_toLowerAddr(sender), id_)) THEN "bad nullifier"
    ELSE "ok"

submitEncryptedBallotErr(sender, id_, ciphertext_, nullifier_) ==
    IF ~(id_ \in GovIds /\ _proposalExists[id_]) THEN "proposal not found"
    ELSE IF ~(_proposals[id_].status = "Active") THEN "not active"
    ELSE IF ~(now < _proposals[id_].deadline) THEN "voting closed"
    ELSE IF _hasVoted[id_][sender] THEN "already voted"
    ELSE IF ~(Len(ciphertext_) > 0) THEN "empty ciphertext"
    ELSE IF ~(nullifier_ = keccak256(_toLowerAddr(sender), id_)) THEN "bad nullifier"
    ELSE "ok"

submitEncryptedBallot(sender, id_, ciphertext_, nullifier_) ==
    LET err == submitEncryptedBallotErr(sender, id_, ciphertext_, nullifier_)
    IN  /\ last' = Call("submitEncryptedBallot", id_, sender, nullifier_, err)
        /\ IF err = "ok"
           THEN /\ _ballots' = [_ballots EXCEPT ![id_][sender] =
                        [ ciphertext |-> ciphertext_, nullifier |-> nullifier_,
                          submittedAt |-> now ]]
                /\ _hasVoted' = [_hasVoted EXCEPT ![id_][sender] = TRUE]
           ELSE UNCHANGED <<_ballots, _hasVoted>>
        /\ UNCHANGED <<now, daoVars, webVars, _proposals, _proposalExists, _proposalIds,
                       _results, _hasResult, owner, weightVars>>

\* publishAggregatedResult without the require on the deadline
publishAggregatedResultErr_noDeadline(sender, id_) ==
    IF ~(id_ \in GovIds /\ _proposalExists[id_]) THEN "proposal not found"
    ELSE IF ~(sender = _proposals[id_].createdBy \/ sender = owner) THEN "no perm"
    ELSE IF ~(_proposals[id_].status = "Active") THEN "not active"
    ELSE IF _hasResult[id_] THEN "already finalized"
    ELSE "ok"

publishAggregatedResultErr(sender, id_) ==
    IF ~(id_ \in GovIds /\ _proposalExists[id_]) THEN "proposal not found"
    ELSE IF ~(sender = _proposals[id_].createdBy \/ sender = owner) THEN "no perm"
    ELSE IF ~(_proposals[id_].status = "Active") THEN "not active"
    ELSE IF ~(now >= _proposals[id_].deadline) THEN "deadline not reached"
    ELSE IF _hasResult[id_] THEN "already finalized"
    ELSE "ok"

\* publishAggregatedResult that stores the result but leaves the status Active
publishAggregatedResult_noStatus(sender, id_, r_) ==
    LET err == publishAggregatedResultErr(sender, id_)
    IN  /\ last' = Call("publishAggregatedResult", id_, sender, 0, err)
        /\ IF err = "ok"
           THEN /\ _results' = [_results EXCEPT ![id_] =
                        [ totalFor |-> r_[1], totalAgainst |-> r_[2],
                          totalAbstain |-> r_[3], totalWeight |-> r_[4],
                          proof |-> r_[5], finalizedAt |-> now ]]
                /\ _hasResult' = [_hasResult EXCEPT ![id_] = TRUE]
           ELSE UNCHANGED <<_results, _hasResult>>
        /\ UNCHANGED <<now, daoVars, webVars, _proposals, _proposalExists,
                       _proposalIds, _ballots, _hasVoted, owner, weightVars>>

\* r_ is <<totalFor_, totalAgainst_, totalAbstain_, totalWeight_, proof_>>
publishAggregatedResult(sender, id_, r_) ==
    LET err == publishAggregatedResultErr(sender, id_)
    IN  /\ last' = Call("publishAggregatedResult", id_, sender, 0, err)
        /\ IF err = "ok"
           THEN /\ _results' = [_results EXCEPT ![id_] =
                        [ totalFor |-> r_[1], totalAgainst |-> r_[2],
                          totalAbstain |-> r_[3], totalWeight |-> r_[4],
                          proof |-> r_[5], finalizedAt |-> now ]]
                /\ _hasResult' = [_hasResult EXCEPT ![id_] = TRUE]
                /\ _proposals' = [_proposals EXCEPT ![id_].status = "Finalized"]
           ELSE UNCHANGED <<_results, _hasResult, _proposals>>
        /\ UNCHANGED <<now, daoVars, webVars, _proposalExists, _proposalIds, _ballots,
                       _hasVoted, owner, weightVars>>

\* the outcome of a call that reverts with Panic (checked arithmetic)
Panic == -1

WeightModels == {"OneShareOneVote", "TokenWeighted", "Quadratic"}

NoWeight == [model |-> "none", base |-> 0, out |-> 0]

\* the while loop of _sqrt, one iteration per unfolding
RECURSIVE _sqrtLoop(_, _, _)
_sqrtLoop(x, y, z) ==
    IF ~(z < y) THEN y
    ELSE IF z = 0 THEN Panic
    ELSE IF (x \div z) + z > MaxWord THEN Panic
    ELSE _sqrtLoop(x, z, ((x \div z) + z) \div 2)

_sqrt(x) ==
    IF x = 0 THEN 0
    ELSE IF x + 1 > MaxWord THEN Panic
    ELSE _sqrtLoop(x, x, (x + 1) \div 2)

setSharesErr(sender) == IF sender # owner THEN "only owner" ELSE "ok"

setShares(sender, who, shares) ==
    LET err == setSharesErr(sender)
    IN  /\ last' = Call("setShares", "", sender, 0, err)
        /\ IF err = "ok"
           THEN registeredShares' = [registeredShares EXCEPT ![who] = shares]
           ELSE UNCHANGED registeredShares
        /\ UNCHANGED <<now, daoVars, webVars, _proposals, _proposalExists, _proposalIds,
                       _ballots, _hasVoted, _results, _hasResult, owner, weight>>

\* the view voterWeight with no weight token set; weight holds what it returned
voterWeight(who, model) ==
    LET out == IF model = "OneShareOneVote" THEN registeredShares[who]
               ELSE IF model = "TokenWeighted" THEN 0
               ELSE _sqrt(registeredShares[who])
    IN  /\ last' = Call("voterWeight", "", who, 0, IF out = Panic THEN "panic" ELSE "ok")
        /\ weight' = [model |-> model, base |-> registeredShares[who], out |-> out]
        /\ UNCHANGED <<now, daoVars, webVars, _proposals, _proposalExists, _proposalIds,
                       _ballots, _hasVoted, _results, _hasResult, owner, registeredShares>>


----------------------------------------------------------------------------
(* frontend/web/src/App.tsx over setData / getData *)

Clients == {"c1", "c2"}

\* ids drawn by Date.now().toString(36) + "-" + Math.random().toString(36)
WebIds == {"w1"}

\* the ids of two concurrent creations, one per client
RaceIds == {"w1", "w2"}

\* the proposal id each client's draw yields, a fresh one
DrawnProposalId == [c \in Clients |-> IF c = "c1" THEN "w1" ELSE "w2"]

VoteIds == {"v1", "v2"}

\* the vote id each client's random draw yields
DrawnVoteId == [c \in Clients |-> IF c = "c1" THEN "v1" ELSE "v2"]

WebStartInputs == {0}

WebEndInputs == {0, 1}

WebOptionInputs == {1, 2}

SelectionInputs == {"", "0"}

TallyModes == {"zk-proof-only", "threshold-decrypt"}

\* bytes stored under a key: none, the JSON text "null", or a JSON value
Absent == [kind |-> "absent"]

JsonNull == [kind |-> "null"]

Json(v) == [kind |-> "json", val |-> v]

WebKeys ==
    {<<"dao_proposal_keys", "", "">>}
    \cup {<<"dao_proposal", i, "">> : i \in RaceIds}
    \cup {<<"dao_vote_keys", i, "">> : i \in RaceIds}
    \cup {<<"dao_tally", i, "">> : i \in RaceIds}
    \cup {<<"dao_vote", i, v>> : i \in RaceIds, v \in VoteIds}

\* getData: empty bytes, or what does not parse, reads as null
readJSON(key) == IF _kv[key].kind = "absent" THEN JsonNull ELSE _kv[key]

\* (await readJSON(key)) || []
readKeys(key) == IF readJSON(key).kind = "json" THEN readJSON(key).val ELSE <<>>

\* setData(key, JSON.stringify(value)): last write wins
writeJSON(key, value) == _kv' = [_kv EXCEPT ![key] = value]

\* FHE.encrypt: "FHE-" followed by the base64 of the JSON of the payload
FHE_encrypt(payload) == <<"FHE-", payload>>

NoLocal == [key |-> <<>>, id |-> "", pid |-> "", nextKeys |-> <<>>, obj |-> JsonNull]

\* loadAll: the proposals listed under dao_proposal_keys that read back
loadAll(c) ==
    LET keys == readKeys(<<"dao_proposal_keys", "", "">>)
    IN  cache' = [cache EXCEPT ![c] =
            { readJSON(<<"dao_proposal", keys[k], "">>).val :
                k \in {j \in 1..Len(keys) :
                        readJSON(<<"dao_proposal", keys[j], "">>).kind = "json"} }]

Toast(c, op, pid, msg) ==
    /\ last' = Call(op, pid, NoAddr, 0, msg)
    /\ UNCHANGED <<now, daoVars, govVars, webVars>>

\* the end of a handler's try block: await loadAll()
reload(c) ==
    /\ pc[c] = "reload"
    /\ loadAll(c)
    /\ pc' = [pc EXCEPT ![c] = "idle"]
    /\ local' = [local EXCEPT ![c] = NoLocal]
    /\ UNCHANGED <<now, last, daoVars, govVars, _kv>>

\* useEffect on mount: loadAll()
mount(c) ==
    /\ pc[c] = "idle"
    /\ loadAll(c)
    /\ UNCHANGED <<now, last, daoVars, govVars, _kv, pc, local>>

handleCreateProposal(c, id, nOptions, start, end) ==
    /\ pc[c] = "idle"
    /\ IF nOptions < 2 THEN Toast(c, "handleCreateProposal", id, "Title & at least 2 options required")
       ELSE IF end <= start THEN Toast(c, "handleCreateProposal", id, "End time must be after start time")
       ELSE /\ Len(readKeys(<<"dao_proposal_keys", "", "">>)) < MaxKeys
            /\ pc' = [pc EXCEPT ![c] = "create_proposal"]
            /\ local' = [local EXCEPT ![c] =
                    [ key |-> <<>>, id |-> id, pid |-> id,
                      nextKeys |-> Append(readKeys(<<"dao_proposal_keys", "", "">>), id),
                      obj |-> Json([ id |-> id, options |-> nOptions, start |-> start,
                                     end |-> end, allowRevote |-> TRUE,
                                     createdBy |-> c, createdAt |-> now ]) ]]
            /\ last' = Call("handleCreateProposal", id, NoAddr, 0, "ok")
            /\ UNCHANGED <<now, daoVars, govVars, _kv, cache>>

\* the four writes of handleCreateProposal, in program order
createWrites(c) ==
    /\ \/ /\ pc[c] = "create_proposal"
          /\ writeJSON(<<"dao_proposal", local[c].id, "">>, local[c].obj)
          /\ pc' = [pc EXCEPT ![c] = "create_keys"]
       \/ /\ pc[c] = "create_keys"
          /\ writeJSON(<<"dao_proposal_keys", "", "">>, Json(local[c].nextKeys))
          /\ pc' = [pc EXCEPT ![c] = "create_votekeys"]
       \/ /\ pc[c] = "create_votekeys"
          /\ writeJSON(<<"dao_vote_keys", local[c].id, "">>, Json(<<>>))
          /\ pc' = [pc EXCEPT ![c] = "create_tally"]
       \/ /\ pc[c] = "create_tally"
          /\ writeJSON(<<"dao_tally", local[c].id, "">>, JsonNull)
          /\ pc' = [pc EXCEPT ![c] = "reload"]
    /\ UNCHANGED <<now, last, daoVars, govVars, local, cache>>

findProposal(c, pid) == {p \in cache[c] : p.id = pid}

handleCastVote(c, activeProposalId, vid, selections) ==
    /\ pc[c] = "idle"
    /\ IF findProposal(c, activeProposalId) = {}
          THEN Toast(c, "handleCastVote", activeProposalId, "Invalid proposal")
       ELSE LET proposal == CHOOSE p \in findProposal(c, activeProposalId) : TRUE
            IN  IF now < proposal.start \/ now > proposal.end
                   THEN Toast(c, "handleCastVote", activeProposalId, "Voting window closed")
                ELSE IF selections = ""
                   THEN Toast(c, "handleCastVote", activeProposalId, "Provide selections")
                ELSE /\ Len(readKeys(<<"dao_vote_keys", activeProposalId, "">>)) < MaxKeys
                     /\ pc' = [pc EXCEPT ![c] = "vote_vote"]
                     /\ local' = [local EXCEPT ![c] =
                            [ key |-> <<>>, id |-> vid, pid |-> activeProposalId,
                              nextKeys |-> Append(readKeys(<<"dao_vote_keys", activeProposalId, "">>), vid),
                              obj |-> Json([ id |-> vid, pid |-> activeProposalId,
                                             cipher |-> FHE_encrypt(<<activeProposalId, selections, now>>),
                                             ts |-> now ]) ]]
                     /\ last' = Call("handleCastVote", activeProposalId, NoAddr, 0, "ok")
                     /\ UNCHANGED <<now, daoVars, govVars, _kv, cache>>

\* the two writes of handleCastVote, in program order
castVoteWrites(c) ==
    /\ \/ /\ pc[c] = "vote_vote"
          /\ writeJSON(<<"dao_vote", local[c].pid, local[c].id>>, local[c].obj)
          /\ pc' = [pc EXCEPT ![c] = "vote_keys"]
       \/ /\ pc[c] = "vote_keys"
          /\ writeJSON(<<"dao_vote_keys", local[c].pid, "">>, Json(local[c].nextKeys))
          /\ pc' = [pc EXCEPT ![c] = "reload"]
    /\ UNCHANGED <<now, last, daoVars, govVars, local, cache>>

handleTally(c, pid, mode) ==
    /\ pc[c] = "idle"
    /\ IF findProposal(c, pid) = {}
          THEN Toast(c, "handleTally", pid, "Invalid proposal")
       ELSE LET proposal == CHOOSE p \in findProposal(c, pid) : TRUE
            IN  IF now <= proposal.end
                   THEN Toast(c, "handleTally", pid, "Tally allowed after voting ends")
                ELSE /\ pc' = [pc EXCEPT ![c] = "tally_write"]
                     /\ local' = [local EXCEPT ![c] =
                            [ key |-> <<>>, id |-> pid, pid |-> pid, nextKeys |-> <<>>,
                              obj |-> Json([ pid |-> pid, talliedAt |-> now,
                                             totals |-> [i \in 1..proposal.options |-> 0],
                                             mode |-> mode,
                                             proofRef |-> IF mode = "zk-proof-only"
                                                          THEN <<"log-", pid, now>>
                                                          ELSE <<>> ]) ]]
                     /\ last' = Call("handleTally", pid, NoAddr, 0, "ok")
                     /\ UNCHANGED <<now, daoVars, govVars, _kv, cache>>

\* the write of handleTally
tallyWrite(c) ==
    /\ pc[c] = "tally_write"
    /\ writeJSON(<<"dao_tally", local[c].pid, "">>, local[c].obj)
    /\ pc' = [pc EXCEPT ![c] = "reload"]
    /\ UNCHANGED <<now, last, daoVars, govVars, local, cache>>

\* the handler each write belongs to, and the toast of its catch block
WriteHandler ==
    [ create_proposal |-> <<"handleCreateProposal", "Create failed">>,
      create_keys     |-> <<"handleCreateProposal", "Create failed">>,
      create_votekeys |-> <<"handleCreateProposal", "Create failed">>,
      create_tally    |-> <<"handleCreateProposal", "Create failed">>,
      vote_vote       |-> <<"handleCastVote", "Vote failed">>,
      vote_keys       |-> <<"handleCastVote", "Vote failed">>,
      tally_write     |-> <<"handleTally", "Publish failed">> ]

\* a writeJSON throws (no signer contract, or setData is rejected): the catch
\* block of the handler toasts and the handler ends, the earlier writes stay
writeFails(c) ==
    /\ pc[c] \in DOMAIN WriteHandler
    /\ last' = Call(WriteHandler[pc[c]][1], local[c].pid, NoAddr, 0, WriteHandler[pc[c]][2])
    /\ pc' = [pc EXCEPT ![c] = "idle"]
    /\ local' = [local EXCEPT ![c] = NoLocal]
    /\ UNCHANGED <<now, daoVars, govVars, _kv, cache>>

----------------------------------------------------------------------------
Tick ==
    /\ now < MaxTime
    /\ now' = now + 1
    /\ UNCHANGED <<last, daoVars, govVars, webVars>>

Init ==
    /\ now = 0
    /\ last = NoCall
    /\ proposalNonce = 0
    /\ proposals = [p \in PIDs |-> ZeroMeta]
    /\ tallies = [p \in PIDs |-> ZeroTally]
    /\ ballots = [p \in PIDs |-> [a \in Addrs |-> ZeroBallot]]
    /\ usedNullifier = [p \in PIDs |-> [n \in NullifierInputs |-> FALSE]]
    /\ emitted = [p \in PIDs |-> 0]
    /\ allowed = {}
    /\ delegations = [p \in PIDs |-> [a \in Addrs |-> ZeroDelegation]]
    /\ _proposals = [i \in GovIds |-> ZeroProposal]
    /\ _proposalExists = [i \in GovIds |-> FALSE]
    /\ _proposalIds = <<>>
    /\ _ballots = [i \in GovIds |-> [a \in Addrs |-> ZeroGovBallot]]
    /\ _hasVoted = [i \in GovIds |-> [a \in Addrs |-> FALSE]]
    /\ _results = [i \in GovIds |-> ZeroResult]
    /\ _hasResult = [i \in GovIds |-> FALSE]
    /\ owner = Owner
    /\ registeredShares = [a \in Addrs |-> 0]
    /\ weight = NoWeight
    /\ _kv = [k \in WebKeys |-> Absent]
    /\ pc = [c \in Clients |-> "idle"]
    /\ local = [c \in Clients |-> NoLocal]
    /\ cache = [c \in Clients |-> {}]

DAOCreate ==
    /\ proposalNonce < MaxProposals
    /\ \E s \in {Owner, "alice"}, meta \in MetaInputs : createProposal(s, meta)

DAOSubmit ==
    \E s \in Voters, pid \in CorePIDs, n \in NullifierInputs, c \in CipherInputs :
        submitBallot(s, pid, n, c)

DAOAccumulate ==
    \E pid \in CorePIDs, v \in VectorInputs : accumulateEncryptedVector(Owner, pid, v)

DAOFinalize == \E pid \in CorePIDs : finalize(Owner, pid)

DAOSetAllowlistRoot ==
    \E pid \in CorePIDs, root \in RootInputs : setAllowlistRoot(Owner, pid, root)

DAOAllowAggregateView ==
    \E s \in {Owner, "alice"}, pid \in CorePIDs, v \in ViewerInputs :
        allowAggregateView(s, pid, v)

NextDAO ==
    \/ Tick
    \/ DAOCreate
    \/ DAOSubmit
    \/ DAOAccumulate
    \/ DAOFinalize

SpecDAO == Init /\ [][NextDAO]_vars

\* the voting calls and the owner's calls of DAOPrivacyVotingFHE, for one voter
AdminMetaInputs ==
    { m \in MetaInputs : /\ m.endTs = 2 /\ m.bufferTs = 0
                         /\ m.disclosure = "AggregateOnly"
                         /\ m.optionCount = 2 /\ m.enableOverwrite }

AdminCreate ==
    /\ proposalNonce < MaxProposals
    /\ \E meta \in AdminMetaInputs : createProposal(Owner, meta)

AdminSubmit == \E pid \in CorePIDs : submitBallot("alice", pid, 1, <<1, 0>>)

AdminAccumulate ==
    \E pid \in CorePIDs, v \in {<<0, 1>>, <<1, 0, 0>>} :
        accumulateEncryptedVector(Owner, pid, v)

NextDAOAdmin ==
    \/ Tick
    \/ AdminCreate
    \/ AdminSubmit
    \/ AdminAccumulate
    \/ DAOFinalize
    \/ DAOSetAllowlistRoot
    \/ DAOAllowAggregateView

SpecDAOAdmin == Init /\ [][NextDAOAdmin]_vars

\* the disclosure calls of DAOPrivacyVotingFHE on proposals of either policy
PolicyMetaInputs ==
    { m \in MetaInputs : /\ m.endTs = 2 /\ m.bufferTs = 0
                         /\ m.optionCount = 2 /\ m.enableOverwrite }

PolicyCreate ==
    /\ proposalNonce < MaxProposals
    /\ \E meta \in PolicyMetaInputs : createProposal(Owner, meta)

NextDAOPolicy ==
    \/ Tick
    \/ PolicyCreate
    \/ AdminSubmit
    \/ AdminAccumulate
    \/ DAOFinalize
    \/ DAOAllowAggregateView

SpecDAOPolicy == Init /\ [][NextDAOPolicy]_vars

\* delegation and voting by two accounts on a proposal with or without the
\* delegation flag
DelegateMetaInputs ==
    { [m EXCEPT !.enableDelegation = d] : m \in AdminMetaInputs, d \in BOOLEAN }

DelegateCreate ==
    /\ proposalNonce < MaxProposals
    /\ \E meta \in DelegateMetaInputs : createProposal(Owner, meta)

DelegateSubmit ==
    \E s \in Voters, pid \in CorePIDs, c \in {<<1, 0>>, <<0, 1>>} :
        submitBallot(s, pid, 1, c)

DelegateSetDelegation ==
    \E s \in Voters, pid \in CorePIDs, to \in Voters : setDelegation(s, pid, to)

NextDAODelegate ==
    \/ Tick
    \/ DelegateCreate
    \/ DelegateSubmit
    \/ DelegateSetDelegation
    \/ AdminAccumulate

SpecDAODelegate == Init /\ [][NextDAODelegate]_vars

\* proposals whose end is near the top of the uint64 range, and the time
\* reaching it
LateMetaInputs ==
    { [m EXCEPT !.endTs = e, !.bufferTs = b] :
        m \in AdminMetaInputs, e \in {2, MaxUint64 - 1}, b \in {0, 2} }

LateCreate ==
    /\ proposalNonce < MaxProposals
    /\ \E meta \in LateMetaInputs : createProposal(Owner, meta)

\* block.timestamp at the top of the uint64 range
TickFar ==
    /\ now < MaxUint64
    /\ now' = MaxUint64
    /\ UNCHANGED <<last, daoVars, govVars, webVars>>

NextDAOLate ==
    \/ Tick
    \/ TickFar
    \/ LateCreate
    \/ AdminSubmit
    \/ AdminAccumulate
    \/ DAOFinalize

SpecDAOLate == Init /\ [][NextDAOLate]_vars

\* every function of DAOPrivacyVotingFHE that writes proposal storage, on two
\* proposals
FrameMetaInputs ==
    { m \in AdminMetaInputs : m.eligibilityMerkle = 0 }

FrameCreate == \E meta \in FrameMetaInputs : createProposal(Owner, meta)

FrameSubmit == \E pid \in PIDs : submitBallot("alice", pid, 1, <<1, 0>>)

FrameAccumulate == \E pid \in PIDs : accumulateEncryptedVector(Owner, pid, <<0, 1>>)

FrameFinalize == \E pid \in PIDs : finalize(Owner, pid)

FrameSetDelegation ==
    \E pid \in PIDs, to \in {"alice", "bob"} : setDelegation("alice", pid, to)

FrameSetAllowlistRoot == \E pid \in PIDs : setAllowlistRoot(Owner, pid, 7)

NextDAOFrame ==
    \/ Tick
    \/ FrameCreate
    \/ FrameSubmit
    \/ FrameAccumulate
    \/ FrameFinalize
    \/ FrameSetDelegation
    \/ FrameSetAllowlistRoot

SpecDAOFrame == Init /\ [][NextDAOFrame]_vars

GovCreate ==
    \E s \in Voters, id \in GovIdInputs, d \in DeadlineInputs, f \in OptionFlagInputs :
        Gov_createProposal(s, id, d, "Quadratic", f[1], f[2], f[3])

GovCancel == \E s \in Addrs, id \in GovIdInputs : cancelProposal(s, id)

GovNullifierInputs ==
    {keccak256(_toLowerAddr(a), id) : a \in Voters, id \in GovIds}

GovSubmit ==
    \E s \in Voters, id \in GovIdInputs, c \in GovCipherInputs, n \in GovNullifierInputs :
        submitEncryptedBallot(s, id, c, n)

GovPublish ==
    \E s \in Addrs, id \in GovIdInputs, r \in ResultInputs :
        publishAggregatedResult(s, id, r)

NextGov ==
    \/ Tick
    \/ GovCreate
    \/ GovCancel
    \/ GovSubmit
    \/ GovPublish

SpecGov == Init /\ [][NextGov]_vars

\* the weight helpers of FHE_Governance_Voting
GovSetShares ==
    \E s \in {Owner, "alice"}, shares \in 0..MaxWord : setShares(s, "alice", shares)

GovVoterWeight == \E m \in WeightModels : voterWeight("alice", m)

NextWeight ==
    \/ GovSetShares
    \/ GovVoterWeight

SpecWeight == Init /\ [][NextWeight]_vars

WebCreate ==
    \E c \in {"c1"}, id \in WebIds, n \in WebOptionInputs,
       st \in WebStartInputs, en \in WebEndInputs :
        handleCreateProposal(c, id, n, st, en)

WebCastVote ==
    \E c \in Clients, pid \in WebIds, sel \in SelectionInputs :
        handleCastVote(c, pid, DrawnVoteId[c], sel)

WebTally == \E c \in Clients, pid \in WebIds, m \in TallyModes : handleTally(c, pid, m)

WebStep ==
    \E c \in Clients :
        \/ createWrites(c)
        \/ castVoteWrites(c)
        \/ tallyWrite(c)
        \/ reload(c)
        \/ mount(c)

NextWeb ==
    \/ Tick
    \/ WebCreate
    \/ WebCastVote
    \/ WebTally
    \/ WebStep

SpecWeb == Init /\ [][NextWeb]_vars

\* one web client whose writes can fail
SoloCastVote ==
    \E pid \in WebIds, sel \in SelectionInputs :
        handleCastVote("c1", pid, DrawnVoteId["c1"], sel)

SoloTally == \E pid \in WebIds, m \in TallyModes : handleTally("c1", pid, m)

SoloStep ==
    \/ createWrites("c1")
    \/ castVoteWrites("c1")
    \/ tallyWrite("c1")
    \/ reload("c1")
    \/ mount("c1")

SoloWriteFails == writeFails("c1")

NextWebFail ==
    \/ Tick
    \/ WebCreate
    \/ SoloCastVote
    \/ SoloTally
    \/ SoloStep
    \/ SoloWriteFails

SpecWebFail == Init /\ [][NextWebFail]_vars

\* two web clients creating proposals at the same time, each under a fresh id
RaceCreate ==
    \E c \in Clients :
        /\ _kv[<<"dao_proposal", DrawnProposalId[c], "">>].kind = "absent"
        /\ handleCreateProposal(c, DrawnProposalId[c], 2, 0, 1)

RaceStep ==
    \E c \in Clients :
        \/ createWrites(c)
        \/ reload(c)
        \/ mount(c)

NextWebRace ==
    \/ Tick
    \/ RaceCreate
    \/ RaceStep

SpecWebRace == Init /\ [][NextWebRace]_vars

----------------------------------------------------------------------------
(* Properties *)

\* a step that is a call (every call leaves the clock alone, Tick moves it)
IsCall(op) == now' = now /\ last'.op = op

\* the plaintext choice vector a ballot ciphertext stands for, padded to n options
vectorOf(cipher, n) == [i \in 1..n |-> IF i <= Len(cipher) THEN cipher[i] ELSE 0]

RECURSIVE sumVectors(_, _, _)
sumVectors(p, voters, n) ==
    IF voters = {} THEN [i \in 1..n |-> 0]
    ELSE LET a == CHOOSE x \in voters : TRUE
             rest == sumVectors(p, voters \ {a}, n)
             v == vectorOf(ballots[p][a].cipher, n)
         IN  [i \in 1..n |-> rest[i] + v[i]]

validVoters(p) == {a \in Addrs : ballots[p][a].valid}

(* C1: in every reachable state, for every proposal and every nullifier, at
   most one stored ballot carrying that nullifier has valid = true. *)
C1_AtMostOneValidPerNullifier ==
    \A p \in PIDs, n \in NullifierInputs :
        Cardinality({a \in Addrs : /\ ballots[p][a].valid
                                   /\ ballots[p][a].eligibilityNullifier = n}) <= 1

(* C2: for a proposal with overwrite disabled, a submission is accepted only
   from an account that has no accepted submission for the proposal yet,
   whatever nullifier it supplies. *)
C2_OneAcceptedPerIdentity ==
    [][ ( /\ IsCall("submitBallot")
          /\ last'.err = "ok"
          /\ ~proposals[last'.pid].enableOverwrite )
        => ~ballots[last'.pid][last'.who].valid ]_vars

\* a submitBallot call on an overwrite-disabled proposal with a used nullifier
C3_ReuseCall ==
    /\ IsCall("submitBallot")
    /\ proposals[last'.pid].exists
    /\ ~proposals[last'.pid].enableOverwrite
    /\ usedNullifier[last'.pid][last'.nul]

(* C3 as stated: for a proposal with overwrite disabled, every submission
   whose nullifier was already used fails with "overwrite/disabled", and the
   ballot store, the used-nullifier set and the tally are unchanged. *)
C3_ReuseFailsOverwriteDisabled ==
    [][ C3_ReuseCall =>
            /\ last'.err = "overwrite/disabled"
            /\ UNCHANGED <<ballots, usedNullifier, tallies>> ]_vars

(* C3 amended: for a proposal with overwrite disabled, a submission whose
   nullifier was already used always fails and leaves the ballot store, the
   used-nullifier set and the tally unchanged; the error is
   "overwrite/disabled" when the call is made within [startTs, endTs], and
   the error of the voting window otherwise. *)
C3_ReuseFailsInWindow ==
    [][ C3_ReuseCall =>
            /\ last'.err # "ok"
            /\ UNCHANGED <<ballots, usedNullifier, tallies>>
            /\ (proposalActive(last'.pid) = "ok" => last'.err = "overwrite/disabled")
            /\ (proposalActive(last'.pid) # "ok" => last'.err = proposalActive(last'.pid))
      ]_vars

C3_Witness ==
    /\ last.op = "submitBallot"
    /\ last.err = "overwrite/disabled"
    /\ usedNullifier[last.pid][last.nul]
    /\ \E a \in Addrs : ballots[last.pid][a].valid

(* C4: for a proposal with overwrite enabled, an in-window submission with an
   already-used nullifier succeeds, and afterwards the submitter's ballot is
   the only valid ballot carrying that nullifier. *)
C4_LastSubmissionOnlyValid ==
    [][ ( /\ IsCall("submitBallot")
          /\ proposalActive(last'.pid) = "ok"
          /\ proposals[last'.pid].enableOverwrite
          /\ usedNullifier[last'.pid][last'.nul] )
        => /\ last'.err = "ok"
           /\ \A a \in Addrs :
                ( /\ ballots'[last'.pid][a].valid
                  /\ ballots'[last'.pid][a].eligibilityNullifier = last'.nul )
                => a = last'.who ]_vars

(* C5: the tally of a proposal equals the element-wise sum of the vectors of
   exactly the currently valid ballots. *)
C5_TallyIsSumOfValidBallots ==
    \A p \in PIDs :
        proposals[p].exists =>
            tallies[p].counts =
                sumVectors(p, validVoters(p), proposals[p].optionCount)

(* C6: the status of a proposal never changes once it is Finalized or
   Cancelled, and no step sets a proposal back to Active. *)
C6_StatusMonotonic ==
    [][ \A i \in GovIds :
            /\ (_proposalExists[i] /\ _proposals[i].status # "Active")
                    => _proposals'[i].status = _proposals[i].status
            /\ (_proposalExists[i] /\ _proposals'[i].status # _proposals[i].status)
                    => ( /\ _proposals[i].status = "Active"
                         /\ _proposals'[i].status \in {"Finalized", "Cancelled"} )
      ]_vars

\* a call on a proposal in a terminal status has been made and refused
C6_Witness ==
    /\ last.op \in {"cancelProposal", "publishAggregatedResult", "createProposal"}
    /\ last.pid \in GovIds
    /\ last.err \in {"not active", "id exists"}
    /\ _proposals[last.pid].status \in {"Finalized", "Cancelled"}

(* C7: in every reachable state and for every proposal, a result record
   exists if and only if the proposal's status is Finalized. *)
C7_ResultIffFinalized ==
    \A i \in GovIds :
        /\ _hasResult[i] <=> (_proposalExists[i] /\ _proposals[i].status = "Finalized")
        /\ ~_hasResult[i] => _results[i] = ZeroResult

\* a finalized proposal with its result, and a cancelled one without
C7_Witness ==
    /\ last.op = "publishAggregatedResult"
    /\ last.err = "ok"
    /\ _hasResult[last.pid]
    /\ _proposals[last.pid].status = "Finalized"
    /\ _results[last.pid].finalizedAt = now

(* C8: after a finalize of a proposal has succeeded, every later finalize
   attempt on it fails and emits nothing. *)
C8_FinalizeOnce ==
    [][ ( /\ IsCall("finalize")
          /\ emitted[last'.pid] >= 1 )
        => /\ last'.err # "ok"
           /\ emitted' = emitted ]_vars

(* C9: for every Active proposal and every time now <= end + buffer
   (now = end + buffer included), a finalize by a permitted caller fails as
   too early and leaves the status Active and no result recorded. *)
C9_FinalizeTooEarly ==
    [][ ( /\ IsCall("publishAggregatedResult")
          /\ last'.pid \in GovIds
          /\ _proposalExists[last'.pid]
          /\ _proposals[last'.pid].status = "Active"
          /\ last'.who \in {_proposals[last'.pid].createdBy, owner}
          /\ now <= _proposals[last'.pid].deadline )
        => /\ last'.err = "deadline not reached"
           /\ _proposals'[last'.pid].status = "Active"
           /\ ~_hasResult'[last'.pid] ]_vars

(* C10: once a result record has been written for a proposal, a further
   publish attempt by any caller leaves every field of it as first written. *)
C10_ResultImmutable ==
    [][ \A c \in Clients, i \in WebIds :
            ( /\ pc[c] = "tally_write"
              /\ pc'[c] = "reload"
              /\ local[c].pid = i
              /\ _kv[<<"dao_tally", i, "">>].kind = "json" )
            => _kv'[<<"dao_tally", i, "">>] = _kv[<<"dao_tally", i, "">>] ]_vars

\* a call on an existing proposal of FHE_Governance_Voting
GovCallOn(op, i) == IsCall(op) /\ last'.pid = i /\ _proposalExists[i]

\* the caller of the step is the proposal's creator or the owner
Permitted(i) == last'.who = _proposals[i].createdBy \/ last'.who = owner

(* C11 as stated: a cancel of an Active proposal by its creator sets the
   status to Cancelled, and from then on every submit call and every finalize
   call for it fails with "not active", at any time. *)
C11_CancelledRejectsNotActive ==
    [][ \A i \in GovIds :
            /\ ( /\ GovCallOn("cancelProposal", i)
                 /\ _proposals[i].status = "Active"
                 /\ last'.who = _proposals[i].createdBy )
               => (last'.err = "ok" /\ _proposals'[i].status = "Cancelled")
            /\ ( /\ _proposals[i].status = "Cancelled"
                 /\ ( \/ GovCallOn("submitEncryptedBallot", i)
                      \/ GovCallOn("publishAggregatedResult", i) ) )
               => last'.err = "not active" ]_vars

(* C11 amended: a cancel of an Active proposal by its creator sets the status
   to Cancelled; from then on, at any time, every submit call for it fails
   with "not active", every finalize call for it by its creator or the owner
   fails with "not active", every finalize call by anyone else fails with
   "no perm", and none of these calls changes the contract state. *)
C11_CancelledRejects ==
    [][ \A i \in GovIds :
            /\ ( /\ GovCallOn("cancelProposal", i)
                 /\ _proposals[i].status = "Active"
                 /\ last'.who = _proposals[i].createdBy )
               => (last'.err = "ok" /\ _proposals'[i].status = "Cancelled")
            /\ ( /\ _proposals[i].status = "Cancelled"
                 /\ GovCallOn("submitEncryptedBallot", i) )
               => (last'.err = "not active" /\ UNCHANGED govVars)
            /\ ( /\ _proposals[i].status = "Cancelled"
                 /\ GovCallOn("publishAggregatedResult", i) )
               => /\ last'.err = IF Permitted(i) THEN "not active" ELSE "no perm"
                  /\ UNCHANGED govVars ]_vars

\* a finalize of a cancelled proposal by its creator, after the deadline
C11_Witness ==
    /\ last.op = "publishAggregatedResult"
    /\ last.pid \in GovIds
    /\ last.err = "not active"
    /\ _proposals[last.pid].status = "Cancelled"
    /\ last.who = _proposals[last.pid].createdBy
    /\ now > _proposals[last.pid].deadline

(* C12 as stated: a cancel succeeds only when the requester is the
   proposal's creator or the owner and the proposal is Active; a requester
   who is neither gets "no perm", a cancel of a non-Active proposal gets
   "not active", and in both failure cases the status is unchanged. *)
C12_CancelGuardsAsStated ==
    [][ \A i \in GovIds : GovCallOn("cancelProposal", i) =>
            /\ last'.err = "ok" => (Permitted(i) /\ _proposals[i].status = "Active")
            /\ ~Permitted(i) => last'.err = "no perm"
            /\ _proposals[i].status # "Active" => last'.err = "not active"
            /\ last'.err # "ok" => _proposals'[i] = _proposals[i] ]_vars

(* C12 amended: a cancel succeeds exactly when the requester is the
   proposal's creator or the owner and the proposal is Active, and it then
   sets the status to Cancelled; a requester who is neither gets "no perm"
   whatever the status, a permitted requester of a non-Active proposal gets
   "not active", and in both failure cases the proposal is unchanged. *)
C12_CancelGuards ==
    [][ \A i \in GovIds : GovCallOn("cancelProposal", i) =>
            /\ last'.err = "ok" <=> (Permitted(i) /\ _proposals[i].status = "Active")
            /\ ~Permitted(i) => last'.err = "no perm"
            /\ (Permitted(i) /\ _proposals[i].status # "Active") => last'.err = "not active"
            /\ last'.err # "ok" => _proposals'[i] = _proposals[i]
            /\ last'.err = "ok" => _proposals'[i].status = "Cancelled" ]_vars

\* a cancel of a cancelled proposal by a stranger has been refused
C12_Witness ==
    /\ last.op = "cancelProposal"
    /\ last.pid \in GovIds
    /\ last.err = "no perm"
    /\ _proposalExists[last.pid]
    /\ _proposals[last.pid].status = "Cancelled"
    /\ last.who \notin {_proposals[last.pid].createdBy, owner}

(* C13: a submission is accepted only if the proposal is Active and
   start <= now <= end; a submission made at any now <= end, now = end
   included, is never refused for the voting window; a submission made at
   now > end is refused and changes nothing. *)
C13_WindowInclusive ==
    [][ \A i \in GovIds : GovCallOn("submitEncryptedBallot", i) =>
            /\ last'.err = "ok" =>
                    /\ _proposals[i].status = "Active"
                    /\ _proposals[i].createdAt <= now
                    /\ now <= _proposals[i].deadline
            /\ now <= _proposals[i].deadline => last'.err # "voting closed"
            /\ now > _proposals[i].deadline =>
                    (last'.err # "ok" /\ UNCHANGED govVars) ]_vars

(* C14: a ballot is accepted only if its nullifier is the one derived from
   (proposal, submitting identity): all the accepted submissions of one
   account for one proposal carry the same nullifier. *)
C14_NullifierDerived ==
    [][ ( /\ IsCall("submitBallot")
          /\ last'.err = "ok"
          /\ ballots[last'.pid][last'.who].valid )
        => last'.nul = ballots[last'.pid][last'.who].eligibilityNullifier ]_vars

(* C15: for a proposal whose eligibility root is not zero, no ballot is
   accepted unless a proof was verified against the root; the contract
   verifies none, so no ballot may be accepted for such a proposal. *)
C15_NoBallotWithoutProof ==
    [][ ( /\ IsCall("submitBallot")
          /\ last'.err = "ok" )
        => proposals[last'.pid].eligibilityMerkle = 0 ]_vars

\* the tally record stored for a proposal of the web client, if any
storedTally(i) == _kv[<<"dao_tally", i, "">>]

(* C16: a stored result under Minimal ("zk-proof-only") holds all-zero
   totals and a proof reference, and a stored result under AggregateOnly
   ("threshold-decrypt") holds a totals record and a proof reference. *)
C16_ResultFollowsDisclosure ==
    \A i \in WebIds :
        storedTally(i).kind = "json" =>
            LET t == storedTally(i).val
            IN  /\ t.mode = "zk-proof-only" =>
                        /\ \A k \in DOMAIN t.totals : t.totals[k] = 0
                        /\ Len(t.proofRef) > 0
                /\ t.mode = "threshold-decrypt" =>
                        /\ Len(t.totals) > 0
                        /\ Len(t.proofRef) > 0

(* C17: every ciphertext handed to the decryption access policy is a cell of
   the aggregate tally vector of an existing proposal, never a stored
   ballot. *)
C17_OnlyAggregateAllowed ==
    \A g \in allowed :
        /\ g.store = "tallies"
        /\ g.pid \in PIDs
        /\ tallies[g.pid].initialized
        /\ g.cell \in 1..Len(tallies[g.pid].counts)

\* the aggregate view of a proposal with a stored ballot has been allowed
C17_Witness ==
    /\ last.op = "allowAggregateView"
    /\ last.err = "ok"
    /\ allowed # {}
    /\ \E a \in Addrs : ballots[last.pid][a].valid

(* C18: every grant of the aggregate view of a proposal is made at a time
   strictly after the proposal's end. *)
C18_DisclosureAfterEnd ==
    [][ ( /\ IsCall("allowAggregateView")
          /\ last'.err = "ok" )
        => now > proposals[last'.pid].endTs ]_vars

\* the configuration checks of create
ValidConfig(meta) ==
    /\ 2 <= meta.optionCount /\ meta.optionCount <= MaxOptions
    /\ meta.endTs > meta.startTs
    /\ meta.bufferTs <= ThreeDays

ConfigErrors == {"options/out-of-range", "time/invalid", "buffer/too-long"}

(* C19 as stated: a create succeeds only if the stored configuration is
   valid, and every create that fails returns a configuration error and
   leaves the registry, the id counter and the tallies as they were. *)
C19_CreateValidatesAsStated ==
    [][ IsCall("createProposal") =>
            /\ last'.err = "ok" => ValidConfig(proposals'[last'.pid])
            /\ last'.err # "ok" =>
                    /\ last'.err \in ConfigErrors
                    /\ UNCHANGED <<proposals, proposalNonce, tallies>> ]_vars

(* C19 amended: a create succeeds only if it is called by the owner with a
   valid configuration (2 <= optionCount <= 16, end > start, buffer <= 3
   days); a create by the owner that fails returns a configuration error, a
   create by anyone else returns "not owner", and every failed create leaves
   the registry, the id counter and the tallies as they were. *)
C19_CreateValidates ==
    [][ IsCall("createProposal") =>
            /\ last'.err = "ok" =>
                    /\ last'.who = Owner
                    /\ ValidConfig(proposals'[last'.pid])
                    /\ proposalNonce' = proposalNonce + 1
            /\ last'.err # "ok" =>
                    /\ last'.err \in (IF last'.who = Owner THEN ConfigErrors ELSE {"not owner"})
                    /\ UNCHANGED <<proposals, proposalNonce, tallies>> ]_vars

\* a create with a buffer of more than 3 days has been refused
C19_Witness ==
    /\ last.op = "createProposal"
    /\ last.err = "buffer/too-long"
    /\ last.who = Owner
    /\ proposalNonce = 0

(* C20: in every reachable state, for every existing proposal, the length of
   its tally vector equals its optionCount. *)
C20_TallyLength ==
    \A p \in PIDs :
        proposals[p].exists =>
            /\ tallies[p].initialized
            /\ Len(tallies[p].counts) = proposals[p].optionCount

\* a merge of a vector of the wrong length was refused after an accepted merge
C20_Witness ==
    /\ last.op = "accumulateEncryptedVector"
    /\ last.err = "vector/size"
    /\ tallies[last.pid].initialized
    /\ \E k \in 1..Len(tallies[last.pid].counts) : tallies[last.pid].counts[k] # 0

(* C21: after a successful merge, every element of the stored tally is the
   homomorphic sum of the previous element and the element of the merged
   vector, for one of the vectors a caller can pass. *)
C21_MergeAdds ==
    [][ ( /\ IsCall("accumulateEncryptedVector")
          /\ last'.err = "ok" )
        => \E v \in VectorInputs :
                /\ Len(v) = Len(tallies[last'.pid].counts)
                /\ Len(tallies'[last'.pid].counts) = Len(v)
                /\ \A i \in 1..Len(v) :
                        tallies'[last'.pid].counts[i]
                            = add64(tallies[last'.pid].counts[i], v[i]) ]_vars

\* x is an element of the sequence s
InSeq(x, s) == \E k \in 1..Len(s) : s[k] = x

\* no handler of any client is between two of its writes
Quiescent == \A c \in Clients : pc[c] \in {"idle", "reload"}

(* C22: when no operation is running, the store holds no part of an
   operation without the rest: a proposal record comes with its entry in the
   proposal key list, its vote key list and its tally container, and a vote
   record comes with its entry in the vote key list. *)
C22_AllOrNothing ==
    Quiescent =>
        \A i \in WebIds :
            /\ _kv[<<"dao_proposal", i, "">>].kind = "json" =>
                    /\ InSeq(i, readKeys(<<"dao_proposal_keys", "", "">>))
                    /\ _kv[<<"dao_vote_keys", i, "">>].kind = "json"
                    /\ _kv[<<"dao_tally", i, "">>].kind # "absent"
            /\ \A v \in VoteIds :
                    _kv[<<"dao_vote", i, v>>].kind = "json" =>
                        InSeq(v, readKeys(<<"dao_vote_keys", i, "">>))

(* C24: the square root returned for a base x is the floor of the real square
   root: y * y <= x < (y + 1) * (y + 1), for every x of the unsigned word. *)
C24_SqrtIsFloor ==
    weight.model = "Quadratic" =>
        /\ weight.out * weight.out <= weight.base
        /\ weight.base < (weight.out + 1) * (weight.out + 1)

\* everything DAOPrivacyVotingFHE stores under proposal q
perProposal(q) ==
    <<proposals[q], tallies[q], ballots[q], usedNullifier[q], emitted[q], delegations[q]>>

ProposalOps ==
    {"submitBallot", "accumulateEncryptedVector", "setDelegation", "finalize",
     "setAllowlistRoot"}

(* C23: a call of submit, merge, delegate, finalize or set allowlist root
   addressed to proposal p leaves the metadata, ballots, used nullifiers,
   tally, delegations and result events of every other proposal unchanged. *)
C23_OtherProposalsUnchanged ==
    [][ (now' = now /\ last'.op \in ProposalOps)
        => \A q \in PIDs \ {last'.pid} : perProposal(q)' = perProposal(q) ]_vars

\* a successful delegation on proposal 2 while proposal 1 holds a valid ballot,
\* a merged tally and a delegation of its own
C23_Witness ==
    /\ last.op = "setDelegation" /\ last.err = "ok" /\ last.pid = 2
    /\ ballots[1]["alice"].valid
    /\ tallies[1].counts = <<0, 1>>
    /\ delegations[1]["alice"].to = "bob"
    /\ delegations[2]["alice"].ts > delegations[1]["alice"].ts

(* C25: a successful cancel changes only the status of the proposal: its
   other metadata, every stored ballot record and every has-voted entry are
   the same after the call as before, and so are the stored results. *)
C25_CancelKeepsBallots ==
    [][ (IsCall("cancelProposal") /\ last'.err = "ok")
        => /\ _ballots' = _ballots
           /\ _hasVoted' = _hasVoted
           /\ _results' = _results /\ _hasResult' = _hasResult
           /\ _proposalExists' = _proposalExists /\ _proposalIds' = _proposalIds
           /\ _proposals' = [_proposals EXCEPT ![last'.pid].status = "Cancelled"] ]_vars

\* a proposal cancelled after a ballot was stored for it
C25_Witness ==
    /\ last.op = "cancelProposal" /\ last.err = "ok"
    /\ _proposals[last.pid].status = "Cancelled"
    /\ \E a \in Addrs :
            /\ _hasVoted[last.pid][a]
            /\ Len(_ballots[last.pid][a].ciphertext) > 0

(* C26: once a proposal exists, no operation changes any field of its
   metadata: timestamps, vote type, disclosure policy, option count, snapshot
   reference, eligibility root, overwrite flag and delegation flag keep their
   creation-time values. *)
C26_MetadataImmutable ==
    [][ \A p \in PIDs : proposals[p].exists => proposals'[p] = proposals[p] ]_vars

\* the proposal is stored and listed: loadAll returns it
Listed(i) ==
    /\ _kv[<<"dao_proposal", i, "">>].kind = "json"
    /\ InSeq(i, readKeys(<<"dao_proposal_keys", "", "">>))

(* C27: proposals are never overwritten and never deleted: once a proposal is
   stored and listed under its id, every later state stores the same record
   under that id and still lists it. *)
C27_ProposalsPersist ==
    [][ \A i \in RaceIds :
            Listed(i) =>
                /\ Listed(i)'
                /\ _kv'[<<"dao_proposal", i, "">>] = _kv[<<"dao_proposal", i, "">>] ]_vars

(* C28: when a submission of an account that already holds a valid ballot
   under the same nullifier is accepted, the superseded record stays in the store with valid = FALSE and
   with its ciphertext, nullifier and timestamp unchanged. *)
C28_SupersededRetained ==
    [][ ( /\ IsCall("submitBallot")
          /\ last'.err = "ok"
          /\ ballots[last'.pid][last'.who].valid
          /\ ballots[last'.pid][last'.who].eligibilityNullifier = last'.nul )
        => \E a \in Addrs :
                ballots'[last'.pid][a]
                    = [ballots[last'.pid][last'.who] EXCEPT !.valid = FALSE] ]_vars

\* the vector does not fit the tally of the proposal
WrongVector(p, v) ==
    ~tallies[p].initialized \/ Len(v) # Len(tallies[p].counts)

(* C29 as stated: every merge of a vector whose length differs from the
   tally's, or into a tally that is not initialized, fails with the vector
   size error and leaves the tally unchanged. *)
C29_WrongMergeAsStated ==
    [][ \A s \in Addrs, p \in CorePIDs, v \in VectorInputs :
            (accumulateEncryptedVector(s, p, v) /\ WrongVector(p, v))
                => (last'.err = "vector/size" /\ tallies' = tallies) ]_vars

(* C29: every merge of a vector whose length differs from the tally's, or
   into a tally that is not initialized, fails and leaves every tally
   unchanged; the error is the vector size error when the proposal exists and
   the time is within its window, and the error of the window check
   otherwise. *)
C29_WrongMergeRejected ==
    [][ \A s \in Addrs, p \in CorePIDs, v \in VectorInputs :
            (accumulateEncryptedVector(s, p, v) /\ WrongVector(p, v))
                => /\ tallies' = tallies
                   /\ last'.err = IF proposalActive(p) = "ok" THEN "vector/size"
                                  ELSE proposalActive(p) ]_vars

\* a vector of the wrong length refused after an earlier merge filled the tally
C29_Witness ==
    /\ last.op = "accumulateEncryptedVector" /\ last.err = "vector/size"
    /\ proposalActive(last.pid) = "ok"
    /\ tallies[last.pid].counts = <<0, 1>>

(* C30: a submission with an empty ciphertext is never stored: every ballot
   record with valid = TRUE has a non-empty ciphertext. *)
C30_ValidBallotNonEmpty ==
    \A p \in PIDs, a \in Addrs : ballots[p][a].valid => Len(ballots[p][a].cipher) > 0

(* C31: the aggregate view of a tally is granted only for a proposal whose
   disclosure policy is AggregateOnly; for a proposal with Minimal disclosure
   allowAggregateView never succeeds and no cell of the tally is ever handed
   to the decryption access policy. *)
C31_GrantOnlyAggregateOnly ==
    [][ ( /\ IsCall("allowAggregateView")
          /\ last'.err = "ok" )
        => /\ proposals[last'.pid].disclosure = "AggregateOnly"
           /\ \A g \in allowed' : proposals[g.pid].disclosure = "AggregateOnly" ]_vars

(* C32: the tally of a proposal is allocated exactly once, at creation, as a
   vector of encrypted zeros: a successful create allocates the tally of its
   new proposal, which was not allocated before, with optionCount cells that
   all hold the encryption of 0, and no step allocates an allocated tally
   again: a create leaves every allocated tally as it is and no operation
   clears the initialized flag. *)
C32_TallyAllocatedOnce ==
    [][ /\ (IsCall("createProposal") /\ last'.err = "ok")
            => /\ ~tallies[last'.pid].initialized
               /\ tallies'[last'.pid].initialized
               /\ Len(tallies'[last'.pid].counts) = proposals'[last'.pid].optionCount
               /\ \A i \in 1..Len(tallies'[last'.pid].counts) :
                        tallies'[last'.pid].counts[i] = encrypt64(0)
        /\ \A p \in PIDs :
                tallies[p].initialized
                    => /\ tallies'[p].initialized
                       /\ (last'.op = "createProposal" /\ now' = now)
                            => tallies'[p] = tallies[p] ]_vars

\* a second proposal created while the tally of the first holds a merged vector
C32_Witness ==
    /\ last.op = "createProposal" /\ last.err = "ok" /\ last.pid = 2
    /\ tallies[1].counts = <<0, 1>>
    /\ tallies[2].counts = <<0, 0>>

(* C33: recording a delegation from A to B for a proposal changes only the
   delegation record of A: the metadata, ballots, used nullifiers and tally
   are unchanged; and B gains no way to write the ballot of A: a submission
   changes no ballot record but the caller's own. *)
C33_DelegationOnlyRecords ==
    [][ /\ IsCall("setDelegation")
            => /\ UNCHANGED <<proposalNonce, proposals, tallies, ballots, usedNullifier,
                              emitted, allowed>>
               /\ \A p \in PIDs, a \in Addrs :
                        (p # last'.pid \/ a # last'.who \/ last'.err # "ok")
                            => delegations'[p][a] = delegations[p][a]
        /\ IsCall("submitBallot")
            => /\ delegations' = delegations
               /\ \A p \in PIDs, a \in Addrs \ {last'.who} :
                        ballots'[p][a] = ballots[p][a] ]_vars

\* bob submits after alice, who holds a valid ballot, delegated to bob
C33_Witness ==
    /\ last.op = "submitBallot" /\ last.err = "ok" /\ last.who = "bob"
    /\ delegations[last.pid]["alice"].to = "bob"
    /\ ballots[last.pid]["alice"].valid
    /\ ballots[last.pid]["alice"].timestamp < delegations[last.pid]["alice"].ts
    /\ ballots[last.pid]["bob"].timestamp >= delegations[last.pid]["alice"].ts

(* C39: a delegation record exists for a proposal only if the delegation flag
   of the proposal is set. *)
C39_DelegationNeedsFlag ==
    \A p \in PIDs, a \in Addrs :
        delegations[p][a] # ZeroDelegation => proposals[p].enableDelegation

(* C34: once the time is past the end of a proposal, neither its ballots nor
   its tally change any more: every submit and every merge for it at
   now > end is rejected. *)
C34_ClosedAfterEnd ==
    [][ \A p \in PIDs :
            (proposals[p].exists /\ now > proposals[p].endTs)
                => /\ ballots'[p] = ballots[p]
                   /\ tallies'[p] = tallies[p]
                   /\ usedNullifier'[p] = usedNullifier[p]
                   /\ ( /\ now' = now
                        /\ last'.op \in {"submitBallot", "accumulateEncryptedVector"}
                        /\ last'.pid = p )
                        => last'.err = "proposal/ended" ]_vars

\* a merge refused after the end of a proposal that holds a ballot and a
\* merged tally
C34_Witness ==
    /\ last.op = "accumulateEncryptedVector" /\ last.err = "proposal/ended"
    /\ now > proposals[last.pid].endTs
    /\ ballots[last.pid]["alice"].valid
    /\ tallies[last.pid].counts = <<0, 1>>

\* some stored ballot record of the proposal carries the nullifier
Carried(p, n) ==
    \E a \in Addrs :
        /\ ballots[p][a].voter # NoAddr
        /\ ballots[p][a].eligibilityNullifier = n

(* C35: a nullifier is marked used for a proposal if and only if some stored
   ballot record of the proposal carries it, and the nullifier of every valid
   ballot is marked used. *)
C35_NullifiersMatchBallots ==
    \A p \in PIDs :
        /\ \A n \in NullifierInputs : usedNullifier[p][n] <=> Carried(p, n)
        /\ \A a \in Addrs :
                ballots[p][a].valid => usedNullifier[p][ballots[p][a].eligibilityNullifier]

(* C36: for every finalized proposal, every stored ballot was submitted
   strictly before the result was published: the submission timestamp of each
   ballot is less than the deadline and the finalization timestamp of the
   result is at least the deadline. *)
C36_BallotsBeforeResult ==
    \A i \in GovIds :
        (_proposals[i].status = "Finalized" \/ _hasResult[i])
            => /\ _hasResult[i]
               /\ _results[i].finalizedAt >= _proposals[i].deadline
               /\ \A a \in Addrs :
                        _hasVoted[i][a]
                            => /\ _ballots[i][a].submittedAt < _proposals[i].deadline
                               /\ _ballots[i][a].submittedAt < _results[i].finalizedAt

\* a finalized proposal with a stored ballot
C36_Witness ==
    \E i \in GovIds :
        /\ _proposals[i].status = "Finalized"
        /\ _hasResult[i]
        /\ \E a \in Addrs : _hasVoted[i][a] /\ _ballots[i][a].submittedAt > 0

(* C37: finalize is never blocked by arithmetic for a proposal that create
   accepted: for every existing proposal endTs + bufferTs fits in the uint64
   range, and a finalize at a time strictly greater than endTs + bufferTs
   succeeds. *)
C37_FinalizeNotBlocked ==
    [][ /\ \A p \in PIDs :
                proposals'[p].exists
                    => proposals'[p].endTs + proposals'[p].bufferTs <= MaxUint64
        /\ ( /\ IsCall("finalize")
             /\ proposals[last'.pid].exists
             /\ now > proposals[last'.pid].endTs + proposals[last'.pid].bufferTs )
            => last'.err = "ok" ]_vars

\* client c ran handleCreateProposal to its last write
CreateCompleted(c) ==
    /\ pc[c] \in {"idle", "reload"}
    /\ _kv[<<"dao_tally", DrawnProposalId[c], "">>].kind # "absent"

(* C38: when two clients have each completed a create-proposal, in any
   interleaving, both new ids are present in the shared key list: the
   read-then-write update of dao_proposal_keys loses no entry. *)
C38_NoLostUpdate ==
    (\A c \in Clients : CreateCompleted(c))
        => \A c \in Clients :
                InSeq(DrawnProposalId[c], readKeys(<<"dao_proposal_keys", "", "">>))

(* C40: the square-root helper returns a value for every input of the
   unsigned word, the largest one included: no step of it overflows or
   divides by zero, and the value returned is not greater than the input. *)
C40_SqrtReturns ==
    weight.model = "Quadratic" =>
        /\ weight.out # Panic
        /\ weight.out \in 0..weight.base

====
